---- MODULE Spec2Model ----
(***************************************************************************)
(* A model of the co-circom command line front end (bin/co-circom.rs) and  *)
(* of the secret-sharing operations it drives.  One behaviour of Spec is   *)
(* one invocation of the binary: Init fixes the sub-command and its        *)
(* configuration, the actions are the statements of the run_* handler in   *)
(* source order, and `log` records every effect on the outside world       *)
(* (file checks, opens, parses, network connects, file creations).         *)
(*                                                                         *)
(* The scheme operations themselves (share_rep3, share_shamir, merge,      *)
(* translate_primefield_addshare_vec, reconstruct) live in library crates; *)
(* they are modelled from their specified behaviour over a small prime     *)
(* field and are marked as such in the comments.                           *)
(***************************************************************************)
EXTENDS Integers, Sequences, FiniteSets, TLC

\* ------------------------------------------------------------------ bounds
\* Largest threshold / party count a configuration may carry.
MaxParties == 4
\* Largest number of secret elements of a witness handed to split-witness.
MaxLen == 1
\* Largest number of elements of a witness share handed to translation.
MaxVec == 2
\* The random number generator is a deterministic stream with a seed drawn
\* from 0..MaxSeed.
MaxSeed == 2
\* Largest number of input paths given to merge-input-shares.
MaxInputs == 3
\* Largest number of characters of a literal handed to parse_field.
MaxLit == 4
\* Largest number of public inputs of a witness share handed to generate-proof.
MaxPub == 3
\* Largest number of network rounds of the preprocessing protocol.
MaxRounds == 2
\* Largest number of values a Shamir session is preprocessed with.
MaxCount == 3

\* ------------------------------------------------------------- the field
\* P::ScalarField, scaled down to a prime that still exceeds every party
\* index in use (party indices 1..MaxParties+1 must be distinct and non-zero).
P == 7

Field == 0 .. (P - 1)

FAdd(a, b) == (a + b) % P

FSub(a, b) == ((a + P) - b) % P

FMul(a, b) == (a * b) % P

FNeg(a) == (P - a) % P

FInv(a) == CHOOSE y \in 1 .. (P - 1) : (a * y) % P = 1

\* rand::thread_rng(): the k-th draw of the stream started from `seed`.
Rng(seed, k) == (seed * seed + (seed + 2) * k + k * k * k) % P

\* SeedRng: the k-th element expanded from a short seed.
SeedRng(seed, k) == (3 * seed + k * (seed + 1) + 1) % P

Min(a, b) == IF a < b THEN a ELSE b

\* All sequences over S of length lo..hi.
SeqsOf(S, lo, hi) == UNION {[1 .. k -> S] : k \in lo .. hi}

\* ------------------------------------------------- Shamir threshold scheme
\* (library code, modelled from its specified behaviour)

\* f(x) = s + c1 x + ... + ct x^t, by Horner's rule from coefficient k on.
RECURSIVE Horner(_, _, _)
Horner(coeffs, x, k) ==
    IF k > Len(coeffs) THEN 0
    ELSE FAdd(coeffs[k], FMul(x % P, Horner(coeffs, x, k + 1)))

EvalPoly(s, coeffs, x) == FAdd(s, FMul(x % P, Horner(coeffs, x, 1)))

\* The t random coefficients drawn for the k-th shared element.
Coeffs(seed, t, k) == [j \in 1 .. t |-> Rng(seed, (k - 1) * t + j)]

\* The public prefix of a witness: the constant at position 0 and the
\* num_inputs instance values after it; the rest is secret.
PublicPart(witness, num_inputs) == SubSeq(witness, 1, Min(Len(witness), 1 + num_inputs))

SecretPart(witness, num_inputs) == SubSeq(witness, 2 + num_inputs, Len(witness))

\* SharedWitness::share_shamir: n containers, the i-th holding the evaluations
\* at party index i.
share_shamir(witness, num_inputs, t, n, seed) ==
    LET sec == SecretPart(witness, num_inputs)
    IN  [i \in 1 .. n |->
            [public_inputs |-> PublicPart(witness, num_inputs),
             witness |-> [k \in 1 .. Len(sec) |->
                             EvalPoly(sec[k], Coeffs(seed, t, k), i)]]]

RECURSIVE LagrangeBasis(_, _)
LagrangeBasis(i, others) ==
    IF others = {} THEN 1
    ELSE LET j == CHOOSE x \in others : TRUE
         IN  FMul(FMul(j % P, FInv(FSub(j % P, i % P))),
                  LagrangeBasis(i, others \ {j}))

RECURSIVE LagrangeSum(_, _, _)
LagrangeSum(ys, all, todo) ==
    IF todo = {} THEN 0
    ELSE LET i == CHOOSE x \in todo : TRUE
         IN  FAdd(FMul(ys[i], LagrangeBasis(i, all \ {i})),
                  LagrangeSum(ys, all, todo \ {i}))

\* Lagrange interpolation at x = 0 through the points (i, ys[i]).
Lagrange(ys) == LagrangeSum(ys, DOMAIN ys, DOMAIN ys)

\* reconstruct: ys maps the party indices of the shares in hand to their values.
reconstruct_shamir(ys, t) ==
    IF Cardinality(DOMAIN ys) < t + 1
    THEN [err |-> "InsufficientShares", val |-> 0]
    ELSE [err |-> "none", val |-> Lagrange(ys)]

\* ------------------------------------------------ replicated 3-party scheme
\* (library code, modelled from its specified behaviour)

ValsComp(v) == [kind |-> "vals", seed |-> 0, len |-> Len(v), v |-> v]

SeedComp(seed, len) == [kind |-> "seed", seed |-> seed, len |-> len, v |-> <<>>]

NoComp == [kind |-> "none", seed |-> 0, len |-> 0, v |-> <<>>]

\* What a holder of a component works with: a seed is expanded on demand.
ExpandComp(c) ==
    IF c.kind = "seed" THEN [k \in 1 .. c.len |-> SeedRng(c.seed, k)] ELSE c.v

\* The three additive components a + b + c = s of every secret element, in
\* their stored form: with `seeded` the two random ones are kept as seeds.
Rep3Components(sec, seed, seeded) ==
    LET L  == Len(sec)
        sa == Rng(seed, 1)
        sb == Rng(seed, 2)
        a  == IF seeded THEN [k \in 1 .. L |-> SeedRng(sa, k)]
                        ELSE [k \in 1 .. L |-> Rng(seed, 2 * k - 1)]
        b  == IF seeded THEN [k \in 1 .. L |-> SeedRng(sb, k)]
                        ELSE [k \in 1 .. L |-> Rng(seed, 2 * k)]
        c  == [k \in 1 .. L |-> FSub(FSub(sec[k], a[k]), b[k])]
    IN  <<IF seeded THEN SeedComp(sa, L) ELSE ValsComp(a),
          IF seeded THEN SeedComp(sb, L) ELSE ValsComp(b),
          ValsComp(c)>>

\* share_rep3: party i (0..2, stored at position i + 1) gets components i and
\* i + 1 mod 3; with `additive` it gets component i alone.
share_rep3(witness, num_inputs, seed, seeded, additive) ==
    LET comps == Rep3Components(SecretPart(witness, num_inputs), seed, seeded)
    IN  [p \in 1 .. 3 |->
            [public_inputs |-> PublicPart(witness, num_inputs),
             additive |-> additive,
             a |-> comps[p],
             b |-> IF additive THEN NoComp ELSE comps[(p % 3) + 1]]]

\* The components (numbered 1..3) the share at position p holds.
Held(sh, p) == IF sh.additive THEN {p} ELSE {p, (p % 3) + 1}

CompOf(sh, p, c) == IF c = p THEN ExpandComp(sh.a) ELSE ExpandComp(sh.b)

RECURSIVE SumComps(_, _, _, _, _)
SumComps(shs, p, q, todo, k) ==
    IF todo = {} THEN 0
    ELSE LET c == CHOOSE x \in todo : TRUE
             v == IF c \in Held(shs[p], p) THEN CompOf(shs[p], p, c)[k]
                                          ELSE CompOf(shs[q], q, c)[k]
         IN  FAdd(v, SumComps(shs, p, q, todo \ {c}, k))

\* reconstruct(share_p, share_q): the sum of the union of the components the
\* two shares hold, element by element.
reconstruct_rep3(shs, p, q) ==
    [k \in 1 .. shs[p].a.len |->
        SumComps(shs, p, q, Held(shs[p], p) \cup Held(shs[q], q), k)]

\* The sum of the three parties' own components.
combine_additive(shs) ==
    [k \in 1 .. shs[1].a.len |->
        FAdd(FAdd(ExpandComp(shs[1].a)[k], ExpandComp(shs[2].a)[k]),
             ExpandComp(shs[3].a)[k])]

\* ------------------------------------------------------ protocol translator
\* (library code, modelled from its specified behaviour)

\* One Shamir split of the party's own additive components: the sub-share
\* vector destined for the participant with index q.
translate_subshares(add, degree, seed, q) ==
    [k \in 1 .. Len(add) |-> EvalPoly(add[k], Coeffs(seed, degree, k), q)]

\* The party's final Shamir shares: the element-wise sum of the sub-share
\* vectors it holds (its own and the two received ones).
translate_sum(own, recv1, recv2) ==
    [k \in 1 .. Len(own) |-> FAdd(FAdd(own[k], recv1[k]), recv2[k])]

\* parse_witness_share_rep3_as_additive: a party's own additive component.
as_additive(share) == ExpandComp(share.a)

\* ------------------------------------------------- shared container & merge
Keys == {"a", "b", "c"}

KeySets == {{}, {"a"}, {"b"}, {"c"}, {"a", "b"}}

PubMaps == {[k \in {} |-> <<>>]} \cup {[k \in {"p"} |-> <<v>>] : v \in {1, 2}}

\* The input share containers a file may deserialize to.
Containers ==
    {[public_inputs |-> pm, shared_inputs |-> [k \in ks |-> <<3>>]] :
        pm \in PubMaps, ks \in KeySets}

UnionMap(f, g) ==
    [k \in (DOMAIN f) \cup (DOMAIN g) |-> IF k \in DOMAIN f THEN f[k] ELSE g[k]]

\* SerializeableSharedRep3Input::merge (library code, modelled from its
\* specified behaviour): key-disjoint shared inputs, agreeing public inputs.
merge(a, b) ==
    IF (DOMAIN a.shared_inputs) \cap (DOMAIN b.shared_inputs) # {}
    THEN [err |-> "DuplicateKey", val |-> a]
    ELSE IF \E k \in (DOMAIN a.public_inputs) \cap (DOMAIN b.public_inputs) :
                a.public_inputs[k] # b.public_inputs[k]
    THEN [err |-> "Conflict", val |-> a]
    ELSE [err |-> "none",
          val |-> [public_inputs |-> UnionMap(a.public_inputs, b.public_inputs),
                   shared_inputs |-> UnionMap(a.shared_inputs, b.shared_inputs)]]

\* Iterator::try_fold with |a, b| a.merge(b): stops at the first error.
RECURSIVE try_fold(_, _)
try_fold(acc, rest) ==
    IF rest = <<>> THEN [err |-> "none", val |-> acc]
    ELSE LET r == merge(acc, Head(rest))
         IN  IF r.err # "none" THEN r ELSE try_fold(r.val, Tail(rest))

\* The fold with the start item read but left in the list.
fold_input_shares_no_pop(input_shares) ==
    IF input_shares = <<>> THEN [err |-> "Panic", val |-> <<>>]
    ELSE try_fold(input_shares[Len(input_shares)], input_shares)

\* The fold that passes over the first item of the list.
fold_input_shares_skip_first(input_shares) ==
    IF input_shares = <<>> THEN [err |-> "Panic", val |-> <<>>]
    ELSE try_fold(input_shares[Len(input_shares)],
                  SubSeq(input_shares, 2, Len(input_shares) - 1))

\* merge_input_shares, the fold: pop the last item as the start, then merge
\* the remaining items into it in list order.
fold_input_shares(input_shares) ==
    IF input_shares = <<>> THEN [err |-> "Panic", val |-> <<>>]
    ELSE try_fold(input_shares[Len(input_shares)],
                  SubSeq(input_shares, 1, Len(input_shares) - 1))

\* -------------------------------------------------- field-element literals
\* The characters the literals of the model are written with.
Chars == {"-", "+", "_", "0", "x", "1", "2", "4", "a", "A", "z"}

HexDigits == <<"0", "1", "2", "3", "4", "5", "6", "7", "8", "9",
               "a", "b", "c", "d", "e", "f">>

\* The digits of the radixes up to 36, in lower and in upper case.
LowerDigits == HexDigits \o <<"g", "h", "i", "j", "k", "l", "m", "n", "o", "p",
                              "q", "r", "s", "t", "u", "v", "w", "x", "y", "z">>

UpperDigits == <<"0", "1", "2", "3", "4", "5", "6", "7", "8", "9",
                 "A", "B", "C", "D", "E", "F", "G", "H", "I", "J", "K", "L", "M",
                 "N", "O", "P", "Q", "R", "S", "T", "U", "V", "W", "X", "Y", "Z">>

\* char::to_digit(radix): the digit's value, a letter in either case, or -1
\* for None.
to_digit(c, radix) ==
    IF \E i \in 1 .. radix : c \in {LowerDigits[i], UpperDigits[i]}
    THEN (CHOOSE i \in 1 .. radix : c \in {LowerDigits[i], UpperDigits[i]}) - 1
    ELSE -1

\* serde_json::Value: a string, another scalar (number, bool, null, object)
\* or an array of values.
JsonString(s) == [kind |-> "string", s |-> s, items |-> <<>>]

JsonNumber == [kind |-> "number", s |-> <<>>, items |-> <<>>]

JsonArray(items) == [kind |-> "array", s |-> <<>>, items |-> items]

Ok(v) == [err |-> "none", val |-> v]

Err(kind) == [err |-> kind, val |-> 0]

\* str::strip_prefix: Some(rest) when s starts with pre, else None.
strip_prefix(s, pre) ==
    IF Len(s) >= Len(pre) /\ SubSeq(s, 1, Len(pre)) = pre
    THEN [some |-> TRUE, rest |-> SubSeq(s, Len(pre) + 1, Len(s))]
    ELSE [some |-> FALSE, rest |-> s]

\* The number the digits of s write in the radix, most significant first,
\* an underscore skipped; -1 when a character is not a digit of the radix.
RECURSIVE radix_value(_, _, _, _)
radix_value(s, radix, k, acc) ==
    IF k > Len(s) THEN acc
    ELSE IF s[k] = "_" THEN radix_value(s, radix, k + 1, acc)
    ELSE IF to_digit(s[k], radix) < 0 THEN -1
    ELSE radix_value(s, radix, k + 1, acc * radix + to_digit(s[k], radix))

\* BigUint::from_str_radix(stripped, 16): one leading '+' is dropped unless a
\* second one follows; an error for the empty string, for a leading underscore
\* and for a character that is no hexadecimal digit.
from_str_radix(s) ==
    LET plus == strip_prefix(s, <<"+">>)
        t    == IF plus.some /\ ~strip_prefix(plus.rest, <<"+">>).some
                THEN plus.rest ELSE s
    IN  IF t = <<>> THEN Err("Parse")
        ELSE IF t[1] = "_" THEN Err("Parse")
        ELSE IF radix_value(t, 16, 1, 0) < 0 THEN Err("Parse")
        ELSE Ok(radix_value(t, 16, 1, 0))

\* The first value F::BigInt cannot hold (its limbs are full).
BigIntLimit == 16

\* big_int.try_into(): an error when the number does not fit F::BigInt.
try_into_bigint(n) == IF n >= BigIntLimit THEN Err("Parse") ELSE Ok(n)

\* F::from(big_int): from_bigint(big_int).unwrap(), which is None for a
\* number not below the modulus.
from_bigint(n) == IF n >= P THEN Err("Panic") ELSE Ok(n)

\* stripped.parse::<F>(): the digits are accumulated in the field
\* (res = res * 10 + digit); the empty string, a character that is no decimal
\* digit and an unnecessary leading zero are errors.
RECURSIVE from_str_digits(_, _, _)
from_str_digits(s, k, res) ==
    IF k > Len(s) THEN Ok(res)
    ELSE IF to_digit(s[k], 10) < 0 THEN Err("Parse")
    ELSE IF k = 1 /\ to_digit(s[k], 10) = 0 THEN Err("Parse")
    ELSE from_str_digits(s, k + 1, FAdd(FMul(res, 10 % P), to_digit(s[k], 10) % P))

from_str(s) ==
    IF s = <<>> THEN Err("Parse")
    ELSE IF s = <<"0">> THEN Ok(0)
    ELSE from_str_digits(s, 1, 0)

\* The hexadecimal branch of parse_field.
parse_hex(s) ==
    LET big == from_str_radix(s)
    IN  IF big.err # "none" THEN big
        ELSE IF try_into_bigint(big.val).err # "none" THEN try_into_bigint(big.val)
        ELSE from_bigint(big.val)

\* parse_field: the value must be a string; an optional '-', then "0x" and
\* hexadecimal digits, or decimal digits; the sign negates the parsed element.
parse_field(val) ==
    IF val.kind # "string" THEN Err("Parse")
    ELSE LET neg == strip_prefix(val.s, <<"-">>)
             hex == strip_prefix(neg.rest, <<"0", "x">>)
             positive_value == IF hex.some THEN parse_hex(hex.rest)
                                           ELSE from_str(hex.rest)
         IN  IF positive_value.err # "none" THEN positive_value
             ELSE IF neg.some THEN Ok(FNeg(positive_value.val))
             ELSE positive_value

\* parse_array: the elements left to right, a nested array flattened in
\* place, up to the first error.
RECURSIVE parse_elements(_, _, _)
parse_elements(json_arr, k, field_elements) ==
    IF k > Len(json_arr) THEN Ok(field_elements)
    ELSE LET ele == json_arr[k]
             r   == IF ele.kind = "array" THEN parse_elements(ele.items, 1, <<>>)
                                          ELSE parse_field(ele)
         IN  IF r.err # "none" THEN r
             ELSE parse_elements(json_arr, k + 1,
                    field_elements \o (IF ele.kind = "array" THEN r.val ELSE <<r.val>>))

parse_array(val) == parse_elements(val.items, 1, <<>>)

\* if val.is_array() { parse_array(&val)? } else { vec![parse_field(&val)?] }
parse_vals(val) ==
    IF val.kind = "array" THEN parse_array(val)
    ELSE IF parse_field(val).err # "none" THEN parse_field(val)
    ELSE Ok(<<parse_field(val).val>>)

\* -------------------------------------------------------------------- state
VARIABLES
    cmd,         \* the sub-command of this invocation (Commands)
    cfg,         \* its parsed configuration (the *Config structs)
    pc,          \* position in the handler
    result,      \* "running", "ok", or the kind of the error returned
    log,         \* the effects on files and network so far, in order
    net,         \* the network handle: NoNet until connected
    witness,     \* the parsed witness / witness share / input share
    shares,      \* the share containers produced or read
    merged,      \* the merged input container
    translated,  \* the translated witness
    input,       \* the plaintext input read: the input map and the public names
    parsed,      \* the parsed values of the input entries processed so far
    output,      \* the contents written to the public-input file
    session      \* the parties of one multi-party session and their channels

vars == <<cmd, cfg, pc, result, log, net, witness, shares, merged, translated,
          input, parsed, output, session>>

Protocols == {"REP3", "SHAMIR"}

ProofSystems == {"Groth16", "Plonk"}

Seeds == 0 .. MaxSeed

NoNet == [connected |-> FALSE, id |-> 0]

DefaultCfg ==
    [protocol |-> "REP3", src_protocol |-> "REP3", target_protocol |-> "SHAMIR",
     proof_system |-> "Groth16", threshold |-> 1, num_parties |-> 3,
     seeded |-> FALSE, additive |-> FALSE, inputs |-> 0,
     out |-> TRUE, public_input |-> TRUE]

\* SplitWitnessConfig: protocol, threshold, num_parties, seeded, additive.
SplitWitnessConfigs ==
    {[DefaultCfg EXCEPT !.protocol = "REP3", !.threshold = t, !.num_parties = n,
                        !.seeded = s, !.additive = a] :
        t \in 0 .. MaxParties, n \in 1 .. MaxParties, s \in BOOLEAN, a \in BOOLEAN}
    \cup
    {[DefaultCfg EXCEPT !.protocol = "SHAMIR", !.threshold = t, !.num_parties = n] :
        t \in 0 .. MaxParties, n \in 1 .. MaxParties}

\* MergeInputSharesConfig: protocol and the list of input paths.
MergeInputSharesConfigs ==
    {[DefaultCfg EXCEPT !.protocol = p, !.inputs = k] :
        p \in Protocols, k \in 0 .. MaxInputs}

\* GenerateWitnessConfig: protocol.
GenerateWitnessConfigs == {[DefaultCfg EXCEPT !.protocol = p] : p \in Protocols}

\* TranslateWitnessConfig: src_protocol and target_protocol.
TranslateWitnessConfigs ==
    {[DefaultCfg EXCEPT !.src_protocol = s, !.target_protocol = t] :
        s \in Protocols, t \in Protocols}

\* GenerateProofConfig: proof system, protocol, threshold, the optional output
\* paths, and the parties listed in the network configuration.
GenerateProofConfigs ==
    {[DefaultCfg EXCEPT !.proof_system = ps, !.protocol = p, !.threshold = t,
                        !.num_parties = n, !.out = o, !.public_input = pi] :
        ps \in ProofSystems, p \in Protocols, t \in 0 .. MaxParties,
        n \in 1 .. MaxParties, o \in BOOLEAN, pi \in BOOLEAN}

\* SplitInputConfig: protocol, seeded, additive.
SplitInputConfigs ==
    {[DefaultCfg EXCEPT !.protocol = p, !.seeded = s, !.additive = a] :
        p \in Protocols, s \in BOOLEAN, a \in BOOLEAN}

PubVals == {0, 2}

\* The signal names of an input file, in the order the map iterates them.
SignalNames == <<"a", "b">>

\* The values a signal of the input file may carry: scalars and arrays, well
\* formed or not, nested up to three deep.
JsonValues ==
    {JsonString(<<"4", "2">>),
     JsonString(<<"-", "1">>),
     JsonString(<<"0", "x", "2">>),
     JsonString(<<"0", "x", "a">>),
     JsonString(<<"z">>),
     JsonNumber,
     JsonArray(<<>>),
     JsonArray(<<JsonString(<<"1">>),
                 JsonArray(<<JsonString(<<"2">>), JsonArray(<<JsonString(<<"4">>)>>)>>),
                 JsonString(<<"0">>)>>),
     JsonArray(<<JsonString(<<"1">>), JsonArray(<<JsonNumber>>)>>),
     JsonArray(<<JsonArray(<<JsonString(<<"z">>)>>), JsonString(<<"1">>)>>)}

\* The entries of the map for the signals in `names`, in iteration order.
RECURSIVE Entries(_, _, _)
Entries(names, vals, k) ==
    IF k > Len(SignalNames) THEN <<>>
    ELSE (IF SignalNames[k] \in names
          THEN <<[name |-> SignalNames[k], val |-> vals[SignalNames[k]]]>>
          ELSE <<>>) \o Entries(names, vals, k + 1)

\* serde_json::Map<String, Value>: every name at most once.
InputMaps ==
    UNION {{Entries(names, vals, 1) : vals \in [names -> JsonValues]} :
                names \in SUBSET {SignalNames[k] : k \in 1 .. Len(SignalNames)}}

\* The witness shares a share file may deserialize to: the cleartext public
\* inputs (the constant first, when there is one) and one shared element.
WitnessShares ==
    {[public_inputs |-> pi, witness |-> <<3>>] : pi \in SeqsOf(PubVals \cup {1}, 0, MaxPub)}

\* What get_public_inputs may return for the circuit.
PublicNameSets == SUBSET {SignalNames[k] : k \in 1 .. Len(SignalNames)}

EmptyMap == [k \in {} |-> <<>>]

\* SerializeableSharedRep3Input::default().
DefaultInput == [public_inputs |-> EmptyMap, shared_inputs |-> EmptyMap]

\* BTreeMap::insert.
Insert(m, name, v) == [k \in (DOMAIN m) \cup {name} |-> IF k = name THEN v ELSE m[k]]

\* A circom witness file together with the num_inputs of its r1cs file: the
\* constant 1, the public values, then the secret values.
Witnesses ==
    {[values |-> <<1>> \o pub \o sec, num_inputs |-> Len(pub)] :
        pub \in SeqsOf(PubVals, 0, 1), sec \in SeqsOf(Field, 1, MaxLen)}

NoWitness == [values |-> <<>>, num_inputs |-> 0]

\* No input map read yet, no file written yet, no session started yet.
NoInput == [public |-> {}, json |-> <<>>]

NoFile == [created |-> FALSE, written |-> FALSE, content |-> <<>>]

NoSession == <<>>

Happened(ev) == \E i \in 1 .. Len(log) : log[i] = ev

Times(ev, k) == [i \in 1 .. k |-> ev]

\* The handler goes on to `next` after the effects evs.
Step(next, evs) ==
    /\ pc' = next
    /\ result' = result
    /\ log' = log \o evs

\* The handler returns: Ok(ExitCode::SUCCESS) or Err(kind), after the effects evs.
Return(kind, evs) ==
    /\ pc' = "done"
    /\ result' = kind
    /\ log' = log \o evs

Init ==
    /\ \/ cmd = "split-witness" /\ cfg \in SplitWitnessConfigs
       \/ cmd = "split-input" /\ cfg \in SplitInputConfigs
       \/ cmd = "merge-input-shares" /\ cfg \in MergeInputSharesConfigs
       \/ cmd = "generate-witness" /\ cfg \in GenerateWitnessConfigs
       \/ cmd = "translate-witness" /\ cfg \in TranslateWitnessConfigs
       \/ cmd = "generate-proof" /\ cfg \in GenerateProofConfigs
    /\ pc = "start"
    /\ result = "running"
    /\ log = <<>>
    /\ net = NoNet
    /\ witness = NoWitness
    /\ shares = <<>>
    /\ merged = <<>>
    /\ translated = <<>>
    /\ input = NoInput
    /\ parsed = <<>>
    /\ output = NoFile
    /\ session = NoSession

\* ------------------------------------------------------------ split-witness
\* file_utils::check_file_exists / check_dir_exists on witness, r1cs, out_dir.
run_split_witness_check_files ==
    /\ cmd = "split-witness" /\ pc = "start"
    /\ \/ Step("read", <<"check_file_exists">>)
       \/ Return("File", <<"check_file_exists">>)
    /\ UNCHANGED <<input, parsed, output, session, cmd, cfg, net, witness, shares, merged, translated>>

\* Open and parse the witness file, then the r1cs file.
run_split_witness_read ==
    /\ cmd = "split-witness" /\ pc = "read"
    /\ \/ /\ Return("File", <<"open:witness">>)
          /\ UNCHANGED witness
       \/ /\ Return("Parse", <<"open:witness", "parse:witness">>)
          /\ UNCHANGED witness
       \/ /\ Return("File", <<"open:witness", "parse:witness", "open:r1cs">>)
          /\ UNCHANGED witness
       \/ /\ Return("Parse", <<"open:witness", "parse:witness", "open:r1cs", "parse:r1cs">>)
          /\ UNCHANGED witness
       \/ /\ Step("share", <<"open:witness", "parse:witness", "open:r1cs", "parse:r1cs">>)
          /\ witness' \in Witnesses
    /\ UNCHANGED <<input, parsed, output, session, cmd, cfg, net, shares, merged, translated>>

\* The guard of the REP3 arm: the error it returns, or "none".
rep3_guard(t, n) ==
    IF t # 1 THEN "Config"
    ELSE IF n # 3 THEN "Config"
    ELSE "none"

\* The call with seeded and additive in each other's place.
rep3_witness_shares_flags_swapped(w, seed, seeded, additive) ==
    share_rep3(w.values, w.num_inputs, seed, additive, seeded)

\* SerializeableSharedRep3Witness::share_rep3(witness, r1cs.num_inputs, rng,
\* config.seeded, config.additive).
rep3_witness_shares(w, seed, seeded, additive) ==
    share_rep3(w.values, w.num_inputs, seed, seeded, additive)

\* The call with t and n in each other's place.
shamir_witness_shares_swapped(w, t, n, seed) ==
    share_shamir(w.values, w.num_inputs, n, t, seed)

\* SharedWitness::share_shamir(witness, r1cs.num_inputs, t, n, rng).
shamir_witness_shares(w, t, n, seed) ==
    share_shamir(w.values, w.num_inputs, t, n, seed)

\* match protocol: the REP3 arm checks threshold and party count and shares;
\* the SHAMIR arm shares with the configured t and n.
run_split_witness_share ==
    /\ cmd = "split-witness" /\ pc = "share"
    /\ \/ /\ cfg.protocol = "REP3"
          /\ rep3_guard(cfg.threshold, cfg.num_parties) # "none"
          /\ Return(rep3_guard(cfg.threshold, cfg.num_parties), <<>>)
          /\ UNCHANGED shares
       \/ /\ cfg.protocol = "REP3"
          /\ rep3_guard(cfg.threshold, cfg.num_parties) = "none"
          /\ \E seed \in Seeds :
                shares' = rep3_witness_shares(witness, seed, cfg.seeded, cfg.additive)
          /\ Step("write", <<"share">>)
       \/ /\ cfg.protocol = "SHAMIR"
          /\ \E seed \in Seeds :
                shares' = shamir_witness_shares(witness, cfg.threshold,
                                                cfg.num_parties, seed)
          /\ Step("write", <<"share">>)
    /\ UNCHANGED <<input, parsed, output, session, cmd, cfg, net, witness, merged, translated>>

\* for (i, share) in shares: File::create, bincode::serialize_into; the loop
\* ends at the first file that cannot be created (k files exist, k below the
\* number of shares) or written (k files exist, k at least 1).
run_split_witness_write ==
    /\ cmd = "split-witness" /\ pc = "write"
    /\ \/ Return("ok", Times("create:share", Len(shares)))
       \/ /\ Len(shares) >= 1
          /\ \E k \in 0 .. Len(shares) : Return("Io", Times("create:share", k))
    /\ UNCHANGED <<input, parsed, output, session, cmd, cfg, net, witness, shares, merged, translated>>

\* -------------------------------------------------------------- split-input
\* if protocol != MPCProtocol::REP3 { return Err }
run_split_input_check_protocol ==
    /\ cmd = "split-input" /\ pc = "start"
    /\ IF cfg.protocol # "REP3" THEN Return("Config", <<>>) ELSE Step("check", <<>>)
    /\ UNCHANGED <<input, parsed, output, session, cmd, cfg, net, witness, shares, merged, translated>>

\* check_file_exists on the input and the circuit, check_dir_exists on out_dir.
run_split_input_check_files ==
    /\ cmd = "split-input" /\ pc = "check"
    /\ \/ Step("read", <<"check_file_exists">>)
       \/ Return("File", <<"check_file_exists">>)
    /\ UNCHANGED <<input, parsed, output, session, cmd, cfg, net, witness, shares, merged, translated>>

\* get_public_inputs(circuit), File::open(&input), serde_json::from_reader,
\* and the three default containers.
run_split_input_read ==
    /\ cmd = "split-input" /\ pc = "read"
    /\ \/ /\ Return("Compile", <<"get_public_inputs">>)
          /\ UNCHANGED <<input, shares>>
       \/ /\ Return("File", <<"get_public_inputs", "open:input">>)
          /\ UNCHANGED <<input, shares>>
       \/ /\ Return("Parse", <<"get_public_inputs", "open:input", "parse:input">>)
          /\ UNCHANGED <<input, shares>>
       \/ /\ Step("entries", <<"get_public_inputs", "open:input", "parse:input">>)
          /\ \E pub \in PublicNameSets, json \in InputMaps :
                input' = [public |-> pub, json |-> json]
          /\ shares' = <<DefaultInput, DefaultInput, DefaultInput>>
    /\ UNCHANGED <<parsed, output, session, cmd, cfg, net, witness, merged, translated>>

\* SerializeableSharedRep3Input::share_rep3 (library code, modelled from its
\* specified behaviour): the three parties' shares of one signal.
share_rep3_input(vals, seed, seeded, additive) ==
    LET comps == Rep3Components(vals, seed, seeded)
    IN  [p \in 1 .. 3 |->
            [additive |-> additive,
             a |-> comps[p],
             b |-> IF additive THEN NoComp ELSE comps[(p % 3) + 1]]]

\* public_inputs.contains(&name)
is_public(public_inputs, name) == name \in public_inputs

\* The copy of a public signal that leaves the last party out.
insert_public_first_two(containers, name, parsed_vals) ==
    [p \in 1 .. 3 |->
        IF p = 3 THEN containers[p]
        ELSE [containers[p] EXCEPT
                !.public_inputs = Insert(containers[p].public_inputs, name, parsed_vals)]]

\* shares[0..3].public_inputs.insert(name.clone(), parsed_vals.clone())
insert_public(containers, name, parsed_vals) ==
    [p \in 1 .. 3 |->
        [containers[p] EXCEPT
            !.public_inputs = Insert(containers[p].public_inputs, name, parsed_vals)]]

\* shares[0..3].shared_inputs.insert(name.clone(), share_i)
insert_shared(containers, name, signal_shares) ==
    [p \in 1 .. 3 |->
        [containers[p] EXCEPT
            !.shared_inputs = Insert(containers[p].shared_inputs, name, signal_shares[p])]]

\* One turn of `for (name, val) in input_json`: parse the value, then copy it
\* into the public inputs or share it into the shared inputs.
run_split_input_entry ==
    /\ cmd = "split-input" /\ pc = "entries"
    /\ Len(parsed) < Len(input.json)
    /\ LET entry == input.json[Len(parsed) + 1]
           parsed_vals == parse_vals(entry.val)
       IN  IF parsed_vals.err # "none"
           THEN /\ Return(parsed_vals.err, <<"parse:value">>)
                /\ UNCHANGED <<parsed, shares>>
           ELSE /\ parsed' = Append(parsed, parsed_vals.val)
                /\ IF is_public(input.public, entry.name)
                   THEN /\ shares' = insert_public(shares, entry.name, parsed_vals.val)
                        /\ Step("entries", <<"parse:value">>)
                   ELSE /\ \E seed \in Seeds :
                            shares' = insert_shared(shares, entry.name,
                                        share_rep3_input(parsed_vals.val, seed,
                                                         cfg.seeded, cfg.additive))
                        /\ Step("entries", <<"parse:value", "share">>)
    /\ UNCHANGED <<input, output, session, cmd, cfg, net, witness, merged, translated>>

\* After the loop: for (i, share) in shares: File::create, serialize_into; the
\* loop ends at the first file that cannot be created (k files exist, k below
\* 3) or written (k files exist, k at least 1).
run_split_input_write ==
    /\ cmd = "split-input" /\ pc = "entries"
    /\ Len(parsed) = Len(input.json)
    /\ \/ Return("ok", Times("create:share", 3))
       \/ \E k \in 0 .. 3 : Return("Io", Times("create:share", k))
    /\ UNCHANGED <<input, parsed, output, session, cmd, cfg, net, witness, shares, merged, translated>>

\* ------------------------------------------------------- merge-input-shares
\* if protocol != MPCProtocol::REP3 { return Err }
run_merge_input_shares_check_protocol ==
    /\ cmd = "merge-input-shares" /\ pc = "start"
    /\ IF cfg.protocol # "REP3" THEN Return("Config", <<>>) ELSE Step("count", <<>>)
    /\ UNCHANGED <<input, parsed, output, session, cmd, cfg, net, witness, shares, merged, translated>>

\* The count check without its early return.
min_inputs_ok_always(k) == TRUE

\* if inputs.len() < 2 { return Err }
min_inputs_ok(k) == ~(k < 2)

run_merge_input_shares_check_count ==
    /\ cmd = "merge-input-shares" /\ pc = "count"
    /\ IF min_inputs_ok(cfg.inputs) THEN Step("check", <<>>) ELSE Return("Count", <<>>)
    /\ UNCHANGED <<input, parsed, output, session, cmd, cfg, net, witness, shares, merged, translated>>

\* for input in &inputs { check_file_exists(input)? }
run_merge_input_shares_check_files ==
    /\ cmd = "merge-input-shares" /\ pc = "check"
    /\ \/ Step("deserialize", Times("check_file_exists", cfg.inputs))
       \/ \E k \in 1 .. cfg.inputs : Return("File", Times("check_file_exists", k))
    /\ UNCHANGED <<input, parsed, output, session, cmd, cfg, net, witness, shares, merged, translated>>

\* The effects of the closure of inputs.iter().map(..) on the first k inputs:
\* File::open, then bincode::deserialize_from, for one input after the other.
open_and_deserialize(k) ==
    [i \in 1 .. (2 * k) |-> IF i % 2 = 1 THEN "open:input" ELSE "parse:input"]

\* merge_input_shares: open and deserialize the inputs one by one, in list
\* order, up to the first input that cannot be opened or deserialized.
merge_input_shares_deserialize ==
    /\ cmd = "merge-input-shares" /\ pc = "deserialize"
    /\ \/ /\ \E k \in 1 .. cfg.inputs :
                Return("File", open_and_deserialize(k - 1) \o <<"open:input">>)
          /\ UNCHANGED shares
       \/ /\ \E k \in 1 .. cfg.inputs :
                Return("Parse", open_and_deserialize(k))
          /\ UNCHANGED shares
       \/ /\ Step("fold", open_and_deserialize(cfg.inputs))
          /\ shares' \in [1 .. cfg.inputs -> Containers]
    /\ UNCHANGED <<input, parsed, output, session, cmd, cfg, net, witness, merged, translated>>

\* input_shares.pop().expect(..) and the try_fold over the remaining items.
merge_input_shares_fold ==
    /\ cmd = "merge-input-shares" /\ pc = "fold"
    /\ LET r == fold_input_shares(shares)
       IN  IF r.err # "none"
           THEN Return(r.err, <<"merge">>) /\ UNCHANGED merged
           ELSE Step("write", <<"merge">>) /\ merged' = r.val
    /\ UNCHANGED <<input, parsed, output, session, cmd, cfg, net, witness, shares, translated>>

\* File::create(&out) and bincode::serialize_into(out_file, &merged).
\* Either can fail: the first leaves no file, the second the created file.
merge_input_shares_write ==
    /\ cmd = "merge-input-shares" /\ pc = "write"
    /\ \/ Return("ok", <<"create:out">>)
       \/ Return("Io", <<>>)
       \/ Return("Io", <<"create:out">>)
    /\ UNCHANGED <<input, parsed, output, session, cmd, cfg, net, witness, shares, merged, translated>>

\* --------------------------------------------------------- generate-witness
\* if protocol != MPCProtocol::REP3 { return Err }
run_generate_witness_check_protocol ==
    /\ cmd = "generate-witness" /\ pc = "start"
    /\ IF cfg.protocol # "REP3" THEN Return("Config", <<>>) ELSE Step("check", <<>>)
    /\ UNCHANGED <<input, parsed, output, session, cmd, cfg, net, witness, shares, merged, translated>>

\* check_file_exists on the input share and on the circuit.
run_generate_witness_check_files ==
    /\ cmd = "generate-witness" /\ pc = "check"
    /\ \/ Step("connect", <<"check_file_exists">>)
       \/ Return("File", <<"check_file_exists">>)
    /\ UNCHANGED <<input, parsed, output, session, cmd, cfg, net, witness, shares, merged, translated>>

\* Rep3MpcNet::new(config.network): the connection to the other parties.
run_generate_witness_connect ==
    /\ cmd = "generate-witness" /\ pc = "connect"
    /\ \/ /\ Return("Network", <<"connect">>)
          /\ UNCHANGED net
       \/ /\ Step("parse", <<"connect">>)
          /\ \E id \in 0 .. 2 : net' = [connected |-> TRUE, id |-> id]
    /\ UNCHANGED <<input, parsed, output, session, cmd, cfg, witness, shares, merged, translated>>

\* File::open(&input) and co_circom::parse_shared_input(file, &mut mpc_net).
run_generate_witness_parse_input ==
    /\ cmd = "generate-witness" /\ pc = "parse"
    /\ \/ /\ Return("File", <<"open:input">>)
          /\ UNCHANGED shares
       \/ /\ Return("Parse", <<"open:input", "parse:input">>)
          /\ UNCHANGED shares
       \/ /\ Step("generate", <<"open:input", "parse:input">>)
          /\ \E c \in Containers : shares' = <<c>>
    /\ UNCHANGED <<input, parsed, output, session, cmd, cfg, net, witness, merged, translated>>

\* co_circom::generate_witness_rep3(circuit, input_share, mpc_net, config).
run_generate_witness_generate ==
    /\ cmd = "generate-witness" /\ pc = "generate"
    /\ \/ Return("Protocol", <<"generate_witness">>)
       \/ Step("write", <<"generate_witness">>)
    /\ UNCHANGED <<input, parsed, output, session, cmd, cfg, net, witness, shares, merged, translated>>

\* File::create(&out) and bincode::serialize_into.
\* Either can fail: the first leaves no file, the second the created file.
run_generate_witness_write ==
    /\ cmd = "generate-witness" /\ pc = "write"
    /\ \/ Return("ok", <<"create:out">>)
       \/ Return("Io", <<>>)
       \/ Return("Io", <<"create:out">>)
    /\ UNCHANGED <<input, parsed, output, session, cmd, cfg, net, witness, shares, merged, translated>>

\* -------------------------------------------------------- translate-witness
\* A direction check that looks at the source protocol alone.
translation_supported_src_only(src, target) == src = "REP3"

\* if src_protocol != REP3 || target_protocol != SHAMIR { return Err }
translation_supported(src, target) == ~(src # "REP3" \/ target # "SHAMIR")

run_translate_witness_check_protocols ==
    /\ cmd = "translate-witness" /\ pc = "start"
    /\ IF translation_supported(cfg.src_protocol, cfg.target_protocol)
       THEN Step("check", <<>>)
       ELSE Return("Config", <<>>)
    /\ UNCHANGED <<input, parsed, output, session, cmd, cfg, net, witness, shares, merged, translated>>

\* file_utils::check_file_exists(&witness).
run_translate_witness_check_file ==
    /\ cmd = "translate-witness" /\ pc = "check"
    /\ \/ Step("parse", <<"check_file_exists">>)
       \/ Return("File", <<"check_file_exists">>)
    /\ UNCHANGED <<input, parsed, output, session, cmd, cfg, net, witness, shares, merged, translated>>

\* File::open(witness) and parse_witness_share_rep3_as_additive: the party's
\* additive share vector, with the cleartext public inputs.
run_translate_witness_parse ==
    /\ cmd = "translate-witness" /\ pc = "parse"
    /\ \/ /\ Return("File", <<"open:witness">>)
          /\ UNCHANGED witness
       \/ /\ Return("Parse", <<"open:witness", "parse:witness">>)
          /\ UNCHANGED witness
       \/ /\ Step("connect", <<"open:witness", "parse:witness">>)
          /\ \E v \in SeqsOf(Field, 0, MaxVec) :
                witness' = [values |-> v, num_inputs |-> 0]
    /\ UNCHANGED <<input, parsed, output, session, cmd, cfg, net, shares, merged, translated>>

\* Rep3MpcNet::new(config.network) and net.get_id().
run_translate_witness_connect ==
    /\ cmd = "translate-witness" /\ pc = "connect"
    /\ \/ /\ Return("Network", <<"connect">>)
          /\ UNCHANGED net
       \/ /\ Step("preprocess", <<"connect">>)
          /\ \E id \in 0 .. 2 : net' = [connected |-> TRUE, id |-> id]
    /\ UNCHANGED <<input, parsed, output, session, cmd, cfg, witness, shares, merged, translated>>

\* A threshold above the one the REP3 parties can serve.
threshold_too_high == 1 + 1

\* let threshold = 1;
threshold == 1

\* The preprocessing with the output file created ahead of the translation.
run_translate_witness_preprocess_creates_out ==
    /\ cmd = "translate-witness" /\ pc = "preprocess"
    /\ \/ Return("Protocol", <<"preprocess">>)
       \/ Step("translate", <<"preprocess", "create:out">>)
    /\ UNCHANGED <<input, parsed, output, session, cmd, cfg, net, witness, shares, merged, translated>>

\* ShamirPreprocessing::new(threshold, net.to_shamir_net(), num_pairs).
run_translate_witness_preprocess ==
    /\ cmd = "translate-witness" /\ pc = "preprocess"
    /\ \/ Return("Protocol", <<"preprocess">>)
       \/ Step("translate", <<"preprocess">>)
    /\ UNCHANGED <<input, parsed, output, session, cmd, cfg, net, witness, shares, merged, translated>>

\* protocol.translate_primefield_addshare_vec(witness_share.witness): the own
\* sub-shares plus the sub-share vectors the two other parties send.
run_translate_witness_translate ==
    /\ cmd = "translate-witness" /\ pc = "translate"
    /\ \/ /\ Return("Protocol", <<"translate">>)
          /\ UNCHANGED translated
       \/ /\ Step("write", <<"translate">>)
          /\ \E seed \in Seeds, peer \in Seeds :
                LET L == Len(witness.values)
                IN  translated' =
                        translate_sum(
                            translate_subshares(witness.values, threshold, seed, net.id + 1),
                            [k \in 1 .. L |-> Rng(peer, k)],
                            [k \in 1 .. L |-> Rng(peer, L + k)])
    /\ UNCHANGED <<input, parsed, output, session, cmd, cfg, net, witness, shares, merged>>

\* File::create(&out) and bincode::serialize_into(out_file, &shamir_witness_share).
\* Either can fail: the first leaves no file, the second the created file.
run_translate_witness_write ==
    /\ cmd = "translate-witness" /\ pc = "write"
    /\ \/ Return("ok", <<"create:out">>)
       \/ Return("Io", <<>>)
       \/ Return("Io", <<"create:out">>)
    /\ UNCHANGED <<input, parsed, output, session, cmd, cfg, net, witness, shares, merged, translated>>

\* ----------------------------------------------------------- generate-proof
\* check_file_exists on the witness share and on the zkey.
run_generate_proof_check_files ==
    /\ cmd = "generate-proof" /\ pc = "start"
    /\ \/ Step("open", <<"check_file_exists">>)
       \/ Return("File", <<"check_file_exists">>)
    /\ UNCHANGED <<input, parsed, output, session, cmd, cfg, net, witness, shares, merged, translated>>

\* File::open(witness) and File::open(zkey).
run_generate_proof_open ==
    /\ cmd = "generate-proof" /\ pc = "open"
    /\ \/ Return("File", <<"open:witness">>)
       \/ Return("File", <<"open:witness", "open:zkey">>)
       \/ Step("zkey", <<"open:witness", "open:zkey">>)
    /\ UNCHANGED <<input, parsed, output, session, cmd, cfg, net, witness, shares, merged, translated>>

\* Groth16ZKey::from_reader / PlonkZKey::from_reader.
run_generate_proof_parse_zkey ==
    /\ cmd = "generate-proof" /\ pc = "zkey"
    /\ \/ Return("Parse", <<"parse:zkey">>)
       \/ Step(IF cfg.protocol = "REP3" THEN "rep3" ELSE "shamir", <<"parse:zkey">>)
    /\ UNCHANGED <<input, parsed, output, session, cmd, cfg, net, witness, shares, merged, translated>>

\* The REP3 arm of generate-proof: if t != 1 { return Err }.
rep3_proof_guard(t) == IF t # 1 THEN "Config" ELSE "none"

\* The REP3 arm with the connection opened before the threshold is checked.
run_generate_proof_rep3_connect_first ==
    /\ cmd = "generate-proof" /\ pc = "rep3"
    /\ \/ /\ Return("Network", <<"connect">>)
          /\ UNCHANGED net
       \/ /\ rep3_proof_guard(cfg.threshold) # "none"
          /\ Return(rep3_proof_guard(cfg.threshold), <<"connect">>)
          /\ UNCHANGED net
       \/ /\ rep3_proof_guard(cfg.threshold) = "none"
          /\ Step("rep3_parse", <<"connect">>)
          /\ \E id \in 0 .. 2 : net' = [connected |-> TRUE, id |-> id]
    /\ UNCHANGED <<input, parsed, output, session, cmd, cfg, witness, shares, merged, translated>>

\* The REP3 arm: the threshold check, then Rep3MpcNet::new(config.network).
run_generate_proof_rep3_connect ==
    /\ cmd = "generate-proof" /\ pc = "rep3"
    /\ \/ /\ rep3_proof_guard(cfg.threshold) # "none"
          /\ Return(rep3_proof_guard(cfg.threshold), <<>>)
          /\ UNCHANGED net
       \/ /\ rep3_proof_guard(cfg.threshold) = "none"
          /\ Return("Network", <<"connect">>)
          /\ UNCHANGED net
       \/ /\ rep3_proof_guard(cfg.threshold) = "none"
          /\ Step("rep3_parse", <<"connect">>)
          /\ \E id \in 0 .. 2 : net' = [connected |-> TRUE, id |-> id]
    /\ UNCHANGED <<input, parsed, output, session, cmd, cfg, witness, shares, merged, translated>>

\* The REP3 arm: co_circom::parse_witness_share_rep3(witness_file, &mut mpc_net),
\* then Rep3CoGroth16::with_network(mpc_net) / Rep3CoPlonk::with_network(mpc_net).
run_generate_proof_rep3_parse ==
    /\ cmd = "generate-proof" /\ pc = "rep3_parse"
    /\ \/ /\ Return("Parse", <<"parse:witness">>)
          /\ UNCHANGED shares
       \/ /\ Return("Network", <<"parse:witness", "with_network">>)
          /\ shares' \in {<<w>> : w \in WitnessShares}
       \/ /\ Step("prove", <<"parse:witness", "with_network">>)
          /\ shares' \in {<<w>> : w \in WitnessShares}
    /\ UNCHANGED <<input, parsed, output, session, cmd, cfg, net, witness, merged, translated>>

\* The SHAMIR arm: co_circom::parse_witness_share_shamir(witness_file).
run_generate_proof_shamir_parse ==
    /\ cmd = "generate-proof" /\ pc = "shamir"
    /\ \/ /\ Return("Parse", <<"parse:witness">>)
          /\ UNCHANGED shares
       \/ /\ Step("shamir_connect", <<"parse:witness">>)
          /\ shares' \in {<<w>> : w \in WitnessShares}
    /\ UNCHANGED <<input, parsed, output, session, cmd, cfg, net, witness, merged, translated>>

\* The SHAMIR arm: ShamirCoGroth16::with_network_config(t, config.network) /
\* ShamirCoPlonk::with_network_config(t, config.network, &zkey).
run_generate_proof_shamir_connect ==
    /\ cmd = "generate-proof" /\ pc = "shamir_connect"
    /\ \/ /\ Return("Network", <<"connect">>)
          /\ UNCHANGED net
       \/ /\ Step("prove", <<"connect">>)
          /\ \E id \in 0 .. (cfg.num_parties - 1) :
                net' = [connected |-> TRUE, id |-> id]
    /\ UNCHANGED <<input, parsed, output, session, cmd, cfg, witness, shares, merged, translated>>

\* prover.prove(zkey, witness_share).
run_generate_proof_prove ==
    /\ cmd = "generate-proof" /\ pc = "prove"
    /\ \/ Return("Protocol", <<"prove">>)
       \/ Step("write", <<"prove">>)
    /\ UNCHANGED <<input, parsed, output, session, cmd, cfg, net, witness, shares, merged, translated>>

\* Display of a field element: the decimal digits of its canonical integer
\* with the leading zeros trimmed, which leaves nothing of zero.
RECURSIVE to_string(_)
to_string(f) ==
    IF f = 0 THEN <<>> ELSE to_string(f \div 10) \o <<HexDigits[(f % 10) + 1]>>

\* public_input.iter().skip(1).map(|f| if f.is_zero() { "0" } else
\* { f.to_string() }).collect()
public_input_as_strings(public_input) ==
    [i \in 1 .. (Len(public_input) - 1) |->
        IF public_input[i + 1] = 0 THEN <<"0">> ELSE to_string(public_input[i + 1])]

\* The text serde_json writes for a list of strings (the digit strings need no
\* escape): the items in quotes, separated by commas, in brackets.
RECURSIVE json_items(_, _)
json_items(strings, k) ==
    IF k > Len(strings) THEN <<>>
    ELSE (IF k > 1 THEN <<",">> ELSE <<>>) \o <<"\"">> \o strings[k] \o <<"\"">>
            \o json_items(strings, k + 1)

to_writer(strings) == <<"[">> \o json_items(strings, 1) \o <<"]">>

\* if let Some(out): create and write the proof file; then
\* if let Some(public_input_filename): create and write the public inputs.
\* File::create can fail for either file.  serde_json::to_writer takes the
\* BufWriter by value: a write that fails while the text passes through the
\* buffer is returned as an error, with the file cut at some character; what
\* is still in the buffer at the end is flushed when the BufWriter is dropped,
\* and a failure of that flush is ignored: the handler goes on and returns Ok
\* with the file cut at some character.
run_generate_proof_write ==
    /\ cmd = "generate-proof" /\ pc = "write"
    /\ LET proof_file == IF cfg.out THEN <<"create:out">> ELSE <<>>
           text == to_writer(public_input_as_strings(shares[1].public_inputs))
       IN  \/ /\ ~cfg.public_input
              /\ Return("ok", proof_file)
              /\ UNCHANGED output
           \/ /\ cfg.public_input
              /\ Return("ok", proof_file \o <<"create:public_input">>)
              /\ \E j \in 0 .. Len(text) :
                    output' = [created |-> TRUE, written |-> j = Len(text),
                               content |-> SubSeq(text, 1, j)]
           \/ cfg.out /\ Return("Io", <<>>) /\ UNCHANGED output
           \/ cfg.out /\ Return("Io", <<"create:out">>) /\ UNCHANGED output
           \/ /\ cfg.public_input
              /\ Return("Io", proof_file)
              /\ UNCHANGED output
           \/ /\ cfg.public_input
              /\ Return("Io", proof_file \o <<"create:public_input">>)
              /\ \E j \in 0 .. (Len(text) - 1) :
                    output' = [created |-> TRUE, written |-> FALSE,
                               content |-> SubSeq(text, 1, j)]
    /\ UNCHANGED <<input, parsed, session, cmd, cfg, net, witness, shares, merged, translated>>

Next ==
    \/ run_split_witness_check_files
    \/ run_split_witness_read
    \/ run_split_witness_share
    \/ run_split_witness_write
    \/ run_split_input_check_protocol
    \/ run_split_input_check_files
    \/ run_split_input_read
    \/ run_split_input_entry
    \/ run_split_input_write
    \/ run_merge_input_shares_check_protocol
    \/ run_merge_input_shares_check_count
    \/ run_merge_input_shares_check_files
    \/ merge_input_shares_deserialize
    \/ merge_input_shares_fold
    \/ merge_input_shares_write
    \/ run_generate_witness_check_protocol
    \/ run_generate_witness_check_files
    \/ run_generate_witness_connect
    \/ run_generate_witness_parse_input
    \/ run_generate_witness_generate
    \/ run_generate_witness_write
    \/ run_translate_witness_check_protocols
    \/ run_translate_witness_check_file
    \/ run_translate_witness_parse
    \/ run_translate_witness_connect
    \/ run_translate_witness_preprocess
    \/ run_translate_witness_translate
    \/ run_translate_witness_write
    \/ run_generate_proof_check_files
    \/ run_generate_proof_open
    \/ run_generate_proof_parse_zkey
    \/ run_generate_proof_rep3_connect
    \/ run_generate_proof_rep3_parse
    \/ run_generate_proof_shamir_parse
    \/ run_generate_proof_shamir_connect
    \/ run_generate_proof_prove
    \/ run_generate_proof_write

Spec == Init /\ [][Next]_vars

\* -------------------------------------------- the rounds among the parties
\* The three parties of translate-witness as processes of their own: each runs
\* the statements of run_translate_witness after the share is parsed (connect,
\* preprocessing, translation, write) and exchanges one message with each of
\* the others in every round of preprocessing and translation, over channels
\* that deliver reliably and in order from one sender to one receiver.  The
\* exchange itself is library code, modelled from its specified behaviour:
\* a party sends its messages of the round, then blocks until the exchange of
\* the round is complete: it has received the others' messages of the round,
\* and so has every other participant; only then does its next round begin.
Parties == 1 .. 3

Others(p) == Parties \ {p}

Links == {l \in Parties \X Parties : l[1] # l[2]}

\* The stages with a network exchange.
Exchanges == {"preprocess", "translate"}

\* The order with the translation started right after the connection.
next_stage_translate_first(stage) ==
    CASE stage = "connect" -> "translate"
      [] stage = "translate" -> "preprocess"
      [] stage = "preprocess" -> "write"
      [] OTHER -> "done"

\* The statements of run_translate_witness in source order: Rep3MpcNet::new,
\* ShamirPreprocessing::new, translate_primefield_addshare_vec, File::create.
next_stage(stage) ==
    CASE stage = "connect" -> "preprocess"
      [] stage = "preprocess" -> "translate"
      [] stage = "translate" -> "write"
      [] OTHER -> "done"

\* The rounds of a stage: preprocessing has session.rounds, translation one.
RoundsOf(stage) == IF stage = "preprocess" THEN session.rounds ELSE 1

InitRounds ==
    /\ cmd = "translate-witness"
    /\ cfg = DefaultCfg
    /\ pc = "parties"
    /\ result = "running"
    /\ log = <<>>
    /\ net = NoNet
    /\ witness = NoWitness
    /\ shares = <<>>
    /\ merged = <<>>
    /\ translated = <<>>
    /\ input = NoInput
    /\ parsed = <<>>
    /\ output = NoFile
    /\ \E r \in 1 .. MaxRounds :
        session = [rounds  |-> r,
                   stage   |-> [p \in Parties |-> "connect"],
                   step    |-> [p \in Parties |-> 0],
                   sent    |-> [p \in Parties |-> {}],
                   got     |-> [p \in Parties |-> {}],
                   res     |-> [p \in Parties |-> "running"],
                   preDone |-> [p \in Parties |-> FALSE],
                   chan    |-> [l \in Links |-> <<>>]]

\* The party returns Err(kind): its process ends where it stands.
Abort(p, kind) == session' = [session EXCEPT !.res[p] = kind]

Active(p) == session.res[p] = "running"

\* The party enters `stage`: its first round, nothing sent or received yet.
Enter(s, p, stage) ==
    [s EXCEPT !.stage[p] = stage,
              !.step[p] = IF stage \in Exchanges THEN 1 ELSE 0,
              !.sent[p] = {},
              !.got[p] = {}]

\* Rep3MpcNet::new(config.network).
party_connect(p) ==
    /\ Active(p) /\ session.stage[p] = "connect"
    /\ \/ Abort(p, "Network")
       \/ session' = Enter(session, p, next_stage("connect"))
    /\ UNCHANGED <<input, parsed, output, cmd, cfg, pc, result, log, net, witness, shares, merged, translated>>

\* send(target, bytes): the message of the party's current round to q.
party_send(p, q) ==
    /\ Active(p) /\ session.stage[p] \in Exchanges
    /\ q \in Others(p) /\ q \notin session.sent[p]
    /\ \/ Abort(p, "Network")
       \/ session' = [session EXCEPT
                        !.sent[p] = @ \cup {q},
                        !.chan[<<p, q>>] =
                            Append(@, [op |-> session.stage[p], round |-> session.step[p]])]
    /\ UNCHANGED <<input, parsed, output, cmd, cfg, pc, result, log, net, witness, shares, merged, translated>>

\* The place of a party in the sequence of rounds: the rounds of the
\* preprocessing, then the round of the translation, then past them all.
round_of(s, p) ==
    CASE s.stage[p] = "connect" -> 0
      [] s.stage[p] = "preprocess" -> s.step[p]
      [] s.stage[p] = "translate" -> s.rounds + 1
      [] OTHER -> s.rounds + 2

\* The messages of the round party p is in are fully exchanged for every
\* participant: every party has sent its messages of that round and received
\* the ones sent to it, or has gone on from that round after all had.
round_exchanged(s, p) ==
    \A q \in Parties :
        \/ round_of(s, q) > round_of(s, p)
        \/ /\ round_of(s, q) = round_of(s, p)
           /\ s.sent[q] = Others(q)
           /\ s.got[q] = Others(q)

\* The next round of the stage, or the stage returns and the next statement
\* of the handler begins.
Advance(s, p) ==
    IF s.step[p] < RoundsOf(s.stage[p])
    THEN [s EXCEPT !.step[p] = @ + 1, !.sent[p] = {}, !.got[p] = {}]
    ELSE Enter([s EXCEPT !.preDone[p] = @ \/ s.stage[p] = "preprocess"],
               p, next_stage(s.stage[p]))

\* receive(source): blocks until q's message of the round is there; a message
\* that does not decode as the expected one ends the operation.
party_receive(p, q) ==
    /\ Active(p) /\ session.stage[p] \in Exchanges
    /\ session.sent[p] = Others(p)
    /\ q \in Others(p) /\ q \notin session.got[p]
    /\ session.chan[<<q, p>>] # <<>>
    /\ LET s == [session EXCEPT !.chan[<<q, p>>] = Tail(@), !.got[p] = @ \cup {q}]
       IN  \/ session' = [s EXCEPT !.res[p] = "Protocol"]
           \/ session' = s
    /\ UNCHANGED <<input, parsed, output, cmd, cfg, pc, result, log, net, witness, shares, merged, translated>>

\* The blocking call of the round returns: the party, its own messages sent
\* and the others' received, goes on once the round is exchanged for every
\* participant; while it is not, the wait can end in a timeout.
party_next_round(p) ==
    /\ Active(p) /\ session.stage[p] \in Exchanges
    /\ session.sent[p] = Others(p) /\ session.got[p] = Others(p)
    /\ IF round_exchanged(session, p)
       THEN session' = Advance(session, p)
       ELSE Abort(p, "Network")
    /\ UNCHANGED <<input, parsed, output, cmd, cfg, pc, result, log, net, witness, shares, merged, translated>>

\* The receive gives up: the peer is gone or too slow.
party_timeout(p, q) ==
    /\ Active(p) /\ session.stage[p] \in Exchanges
    /\ session.sent[p] = Others(p)
    /\ q \in Others(p) /\ q \notin session.got[p]
    /\ session.chan[<<q, p>>] = <<>>
    /\ Abort(p, "Network")
    /\ UNCHANGED <<input, parsed, output, cmd, cfg, pc, result, log, net, witness, shares, merged, translated>>

\* File::create(&out) and bincode::serialize_into.
party_write(p) ==
    /\ Active(p) /\ session.stage[p] = "write"
    /\ \/ Abort(p, "Io")
       \/ session' = [Enter(session, p, next_stage("write")) EXCEPT !.res[p] = "ok"]
    /\ UNCHANGED <<input, parsed, output, cmd, cfg, pc, result, log, net, witness, shares, merged, translated>>

NextRounds ==
    \/ \E p \in Parties : party_connect(p)
    \/ \E p \in Parties, q \in Parties : party_send(p, q)
    \/ \E p \in Parties, q \in Parties : party_receive(p, q)
    \/ \E p \in Parties : party_next_round(p)
    \/ \E p \in Parties, q \in Parties : party_timeout(p, q)
    \/ \E p \in Parties : party_write(p)

SpecRounds == InitRounds /\ [][NextRounds]_vars

\* ------------------------------------------- translation among the parties
\* The three REP3 parties run translate on their shares of one witness, each
\* as a process of its own: Init draws the witness and its REP3 sharing
\* (replicated or additive, seeded or not); a party Shamir-shares its additive
\* vector and sends every other party its sub-shares, then waits for the
\* sub-shares of the two others and sums what it holds.  The call of a party
\* can fail at either step, and then the party has no result.
SecretVals == {0, 1, P - 1}

InitParties ==
    /\ cmd = "translate-witness"
    /\ cfg \in {[DefaultCfg EXCEPT !.seeded = s, !.additive = a] :
                    s \in BOOLEAN, a \in BOOLEAN}
    /\ pc = "parties"
    /\ result = "running"
    /\ log = <<>>
    /\ net = [connected |-> TRUE, id |-> 0]
    /\ witness \in {[values |-> <<1>> \o sec, num_inputs |-> 0] :
                        sec \in SeqsOf(SecretVals, 1, MaxVec)}
    /\ \E seed \in Seeds :
            shares = share_rep3(witness.values, witness.num_inputs, seed,
                                cfg.seeded, cfg.additive)
    /\ merged = <<>>
    /\ translated = [p \in Parties |-> <<>>]
    /\ input = NoInput
    /\ parsed = <<>>
    /\ output = NoFile
    /\ session = [res |-> [p \in Parties |-> "running"],
                  sub |-> [p \in Parties |-> <<>>]]

\* What party p ends with: the sum of its own sub-shares and of the ones the
\* two other parties made for it.
party_translation(p, sub) ==
    translate_sum(sub[p][p], sub[(p % 3) + 1][p], sub[((p + 1) % 3) + 1][p])

\* The first half of translate_primefield_addshare_vec for party p: share the
\* additive vector with degree `threshold` and send the sub-shares; the `?`
\* returns the error of a failed send.
party_reshare(p) ==
    /\ pc = "parties" /\ Active(p) /\ session.sub[p] = <<>>
    /\ \/ Abort(p, "Protocol")
       \/ \E seed \in Seeds :
            session' = [session EXCEPT !.sub[p] =
                            [q \in Parties |->
                                translate_subshares(as_additive(shares[p]),
                                                    threshold, seed, q)]]
    /\ UNCHANGED <<input, parsed, output, cmd, cfg, pc, result, log, net, witness, shares, merged, translated>>

\* The second half: receive the sub-shares of the two others and sum; the `?`
\* returns the error of a peer that is gone, too slow or sends malformed data.
party_translate(p) ==
    /\ pc = "parties" /\ Active(p) /\ session.sub[p] # <<>>
    /\ \/ Abort(p, "Protocol") /\ UNCHANGED translated
       \/ /\ \A q \in Others(p) : session.sub[q] # <<>>
          /\ translated' = [translated EXCEPT ![p] = party_translation(p, session.sub)]
          /\ session' = [session EXCEPT !.res[p] = "ok"]
    /\ UNCHANGED <<input, parsed, output, cmd, cfg, pc, result, log, net, witness, shares, merged>>

NextParties ==
    \/ \E p \in Parties : party_reshare(p)
    \/ \E p \in Parties : party_translate(p)

SpecParties == InitParties /\ [][NextParties]_vars

\* ------------------------------------------ the preprocessed randomness
\* One party's Shamir session (library code, modelled from its specified
\* behaviour): ShamirPreprocessing::new(t, net, count) leaves a queue of
\* `count` random values, and every operation that needs one takes the next.
PreprocessedValues ==
    {[i \in 1 .. Len(v) |-> [id |-> i, r |-> v[i]]] : v \in SeqsOf(Field, 0, MaxCount)}

InitQueue ==
    /\ cmd = "translate-witness"
    /\ cfg = DefaultCfg
    /\ pc = "session"
    /\ result = "running"
    /\ log = <<>>
    /\ net = [connected |-> TRUE, id |-> 0]
    /\ witness = NoWitness
    /\ shares = <<>>
    /\ merged = <<>>
    /\ translated = <<>>
    /\ input = NoInput
    /\ parsed = <<>>
    /\ output = NoFile
    /\ \E pre \in PreprocessedValues :
        session = [count |-> Len(pre), pre |-> pre, queue |-> pre,
                   handed |-> <<>>, calls |-> 0, res |-> "running"]

\* The value handed out with the queue left as it was.
get_pair_keep(s) ==
    IF s.queue = <<>>
    THEN [s EXCEPT !.calls = @ + 1, !.res = "Protocol"]
    ELSE [s EXCEPT !.calls = @ + 1, !.handed = Append(@, Head(s.queue))]

\* An operation takes its next random value: the head of the queue leaves the
\* queue; on an empty queue the operation fails and the session is over.
get_pair(s) ==
    IF s.queue = <<>>
    THEN [s EXCEPT !.calls = @ + 1, !.res = "Protocol"]
    ELSE [s EXCEPT !.calls = @ + 1, !.handed = Append(@, Head(s.queue)),
                   !.queue = Tail(@)]

session_consume ==
    /\ pc = "session" /\ session.res = "running"
    /\ session' = get_pair(session)
    /\ UNCHANGED <<input, parsed, output, cmd, cfg, pc, result, log, net, witness, shares, merged, translated>>

NextQueue == session_consume

SpecQueue == InitQueue /\ [][NextQueue]_vars

\* ------------------------------------------------- parse_field on a literal
\* parse_field applied to one JSON scalar: a string over Chars of up to
\* MaxLit characters, or a value that is no string.
InitParse ==
    /\ cmd = "parse-field"
    /\ cfg = DefaultCfg
    /\ pc = "start"
    /\ result = "running"
    /\ log = <<>>
    /\ net = NoNet
    /\ witness = NoWitness
    /\ shares = <<>>
    /\ merged = <<>>
    /\ translated = <<>>
    /\ \E val \in {JsonString(s) : s \in SeqsOf(Chars, 0, MaxLit)} \cup {JsonNumber} :
            input = [public |-> {}, json |-> <<[name |-> "in", val |-> val]>>]
    /\ parsed = <<>>
    /\ output = NoFile
    /\ session = NoSession

parse_field_call ==
    /\ cmd = "parse-field" /\ pc = "start"
    /\ LET r == parse_field(input.json[1].val)
       IN  /\ parsed' = <<r>>
           /\ Return(IF r.err = "none" THEN "ok" ELSE r.err, <<"parse:value">>)
    /\ UNCHANGED <<input, output, session, cmd, cfg, net, witness, shares, merged, translated>>

NextParse == parse_field_call

SpecParse == InitParse /\ [][NextParse]_vars

\* ------------------------------------------------------------------ claims
Rep3Path ==
    /\ cmd \in {"split-witness", "generate-proof"}
    /\ cfg.protocol = "REP3"

ShamirPath ==
    /\ cmd \in {"split-witness", "generate-proof"}
    /\ cfg.protocol = "SHAMIR"

NetworkCommand == cmd \in {"generate-witness", "translate-witness", "generate-proof"}

\* An error a handler may return before it reaches its scheme guard.
InputError == {"File", "Parse"}

\* C1: every REP3 command path (split-witness, generate-proof) run with
\* threshold != 1 or parties != 3 ends in a configuration error (or in the
\* error of an unreadable input met before the guard) and never attempts a
\* network connection.
C1_Rep3GuardBeforeNetwork ==
    (Rep3Path /\ (cfg.threshold # 1 \/ cfg.num_parties # 3)) =>
        /\ ~Happened("connect")
        /\ pc = "done" => result \in {"Config"} \cup InputError

\* C2 as stated: in the commands that open a network connection, no run
\* returns a configuration error or an input-file parse error after the
\* connect step.
C2_ErrorsBeforeNetwork ==
    (NetworkCommand /\ result \in {"Config", "Parse"}) => ~Happened("connect")

\* The share file a command parses with the network handle in hand.
ParsedAfterConnect ==
    \/ cmd = "generate-witness"
    \/ cmd = "generate-proof" /\ cfg.protocol = "REP3"

\* C2 amended: every configuration error precedes the connect step, and so
\* does every parse error of the zkey, of the translate-witness share and of
\* the Shamir witness share of generate-proof; the input share of
\* generate-witness and the REP3 witness share of generate-proof are parsed
\* only after the connection is established.
C2_ErrorsBeforeNetworkExceptRep3Shares ==
    NetworkCommand =>
        /\ result = "Config" => ~Happened("connect")
        /\ (result = "Parse" /\ ~ParsedAfterConnect) => ~Happened("connect")
        /\ (result = "Parse" /\ log[Len(log)] = "parse:zkey") => ~Happened("connect")
        /\ (cmd = "generate-witness" /\ Happened("parse:input")) => Happened("connect")
        /\ (cmd = "generate-proof" /\ cfg.protocol = "REP3" /\ Happened("parse:witness"))
                => Happened("connect")

\* A generate-proof run over REP3 stopped by its threshold check after the
\* zkey was parsed, with no connection attempted.
C2_Witness ==
    /\ cmd = "generate-proof" /\ cfg.protocol = "REP3"
    /\ pc = "done" /\ result = "Config"
    /\ Happened("parse:zkey") /\ ~Happened("connect")

\* C3: translate-witness goes on only for (REP3, SHAMIR); for every other
\* pair it returns a configuration error at once: nothing has been checked,
\* opened, connected or preprocessed.
C3_OnlyRep3ToShamir ==
    (cmd = "translate-witness"
        /\ ~(cfg.src_protocol = "REP3" /\ cfg.target_protocol = "SHAMIR")) =>
        /\ log = <<>>
        /\ net = NoNet
        /\ witness = NoWitness
        /\ pc \in {"start", "done"}
        /\ pc = "done" => result = "Config"

C3_Witness ==
    /\ cmd = "translate-witness"
    /\ cfg.src_protocol = "REP3" /\ cfg.target_protocol = "REP3"
    /\ pc = "done" /\ result = "Config"

\* C4: every Shamir command path (split-witness, generate-proof) run with a
\* threshold t and party count n outside 0 < t < n ends in a configuration
\* error (or in the error of an unreadable input met earlier), with no sharing
\* performed and no network connection attempted.
C4_ShamirGuardBeforeSharing ==
    (ShamirPath /\ ~(0 < cfg.threshold /\ cfg.threshold < cfg.num_parties)) =>
        /\ ~Happened("share")
        /\ ~Happened("connect")
        /\ pc = "done" => result \in {"Config"} \cup InputError

\* The secret elements of the witness in hand.
Secret == SecretPart(witness.values, witness.num_inputs)

\* Party p has come back from its translation with a result.
TranslationDone(p) == pc = "parties" /\ session.res[p] = "ok"

\* The sum of the three parties' additive input shares at index k.
AdditiveSum(k) ==
    FAdd(FAdd(as_additive(shares[1])[k], as_additive(shares[2])[k]),
         as_additive(shares[3])[k])

\* C5: a party that has translated its additive share vector of length L
\* holds L Shamir shares, and at every index the Lagrange reconstruction from
\* the shares of any 2 parties that have translated is the sum of the three
\* additive input shares at that index; a party whose translation has failed
\* or not ended holds nothing.
C5_TranslationPreservesSecret ==
    \A p \in Parties :
        /\ ~TranslationDone(p) => translated[p] = <<>>
        /\ TranslationDone(p) =>
            /\ Len(translated[p]) = Len(as_additive(shares[p]))
            /\ \A q \in Others(p) :
                TranslationDone(q) =>
                    \A k \in 1 .. Len(translated[p]) :
                        Lagrange([r \in {p, q} |-> translated[r][k]]) = AdditiveSum(k)

\* All three parties have translated a two-element vector whose elements
\* differ.
C5_Witness ==
    /\ \A p \in Parties : TranslationDone(p)
    /\ Len(translated[1]) = 2
    /\ AdditiveSum(1) # AdditiveSum(2)
    /\ Lagrange([q \in {2, 3} |-> translated[q][2]]) = Secret[2]

Rep3Shared ==
    /\ cmd = "split-witness" /\ cfg.protocol = "REP3"
    /\ Happened("share")

Pairs == {pq \in (1 .. 3) \X (1 .. 3) : pq[1] # pq[2]}

\* C6 as stated: in all four (seeded, additive) configurations, any 2 of the
\* 3 shares of split-witness reconstruct the secret.
C6_Rep3AnyTwoReconstruct ==
    Rep3Shared =>
        \A pq \in Pairs : reconstruct_rep3(shares, pq[1], pq[2]) = Secret

\* C6 amended: without `additive` (seeded or not) any 2 of the 3 shares
\* reconstruct the secret; with `additive` every party holds its own component
\* alone and the three shares together sum to the secret.
C6_Rep3RoundTrip ==
    Rep3Shared =>
        /\ Len(shares) = 3
        /\ ~cfg.additive =>
                \A pq \in Pairs : reconstruct_rep3(shares, pq[1], pq[2]) = Secret
        /\ cfg.additive => combine_additive(shares) = Secret

\* Seeded replicated shares of a non-zero secret: parties 2 and 3 expand their
\* seeds and recover it.
C6_Witness ==
    /\ Rep3Shared
    /\ cfg.seeded /\ ~cfg.additive
    /\ shares[1].a.kind = "seed"
    /\ Secret # <<0>>
    /\ reconstruct_rep3(shares, 2, 3) = Secret

ShamirShared ==
    /\ cmd = "split-witness" /\ cfg.protocol = "SHAMIR"
    /\ Happened("share")
    /\ 0 < cfg.threshold /\ cfg.threshold < cfg.num_parties

\* The values at element k of the shares of the parties in S.
Points(S, k) == [i \in S |-> shares[i].witness[k]]

\* C7: for 0 < t < n, split-witness under Shamir produces n shares, at party
\* indices 1..n; every subset of at least t+1 of them reconstructs every
\* secret element, and reconstruction from exactly t of them fails with
\* InsufficientShares.
C7_ShamirRoundTrip ==
    ShamirShared =>
        /\ DOMAIN shares = 1 .. cfg.num_parties
        /\ \A i \in DOMAIN shares : Len(shares[i].witness) = Len(Secret)
        /\ \A S \in SUBSET (DOMAIN shares) : \A k \in 1 .. Len(Secret) :
            /\ Cardinality(S) >= cfg.threshold + 1 =>
                    reconstruct_shamir(Points(S, k), cfg.threshold)
                        = [err |-> "none", val |-> Secret[k]]
            /\ Cardinality(S) = cfg.threshold =>
                    reconstruct_shamir(Points(S, k), cfg.threshold).err
                        = "InsufficientShares"

\* A sharing with t = 2 among n = 4 whose shares are not all the secret.
C7_Witness ==
    /\ ShamirShared
    /\ cfg.threshold = 2 /\ cfg.num_parties = 4
    /\ Secret # <<>>
    /\ shares[1].witness[1] # Secret[1]

Merging == cmd = "merge-input-shares" /\ Happened("merge")

SharedKeysDisjoint(a, b) == (DOMAIN a.shared_inputs) \cap (DOMAIN b.shared_inputs) = {}

PublicAgree(a, b) ==
    \A k \in (DOMAIN a.public_inputs) \cap (DOMAIN b.public_inputs) :
        a.public_inputs[k] = b.public_inputs[k]

Mergeable(cs) ==
    \A i, j \in DOMAIN cs : i # j => SharedKeysDisjoint(cs[i], cs[j]) /\ PublicAgree(cs[i], cs[j])

\* The union of the maps cs[i][field] of all containers of the list.
UnionOf(cs, field) ==
    [k \in UNION {DOMAIN cs[i][field] : i \in DOMAIN cs} |->
        cs[CHOOSE i \in DOMAIN cs : k \in DOMAIN cs[i][field]][field][k]]

\* merge(c1, merge(c2, ... merge(c(k-1), ck))): the other bracketing.
RECURSIVE fold_right(_)
fold_right(cs) ==
    IF Len(cs) = 1 THEN [err |-> "none", val |-> cs[1]]
    ELSE LET r == fold_right(Tail(cs))
         IN  IF r.err # "none" THEN r ELSE merge(cs[1], r.val)

\* C8: for a list of at least 2 containers with pairwise disjoint shared keys
\* and agreeing public inputs, the fold of merge_input_shares succeeds, its
\* result is the union of the inputs' maps, and folding the same containers
\* in any other order or bracketing gives the same container.
C8_MergeOrderIndependent ==
    (Merging /\ Mergeable(shares)) =>
        /\ Len(shares) >= 2
        /\ result \in {"running", "ok", "Io"}
        /\ merged = [public_inputs |-> UnionOf(shares, "public_inputs"),
                     shared_inputs |-> UnionOf(shares, "shared_inputs")]
        /\ \A perm \in Permutations(DOMAIN shares) :
                LET cs == [i \in DOMAIN shares |-> shares[perm[i]]]
                IN  /\ fold_input_shares(cs) = [err |-> "none", val |-> merged]
                    /\ fold_right(cs) = [err |-> "none", val |-> merged]

\* Three containers with one shared key each, merged into all three keys.
C8_Witness ==
    /\ Merging /\ Mergeable(shares)
    /\ Len(shares) = 3
    /\ DOMAIN shares[1].shared_inputs = {"a"}
    /\ merged # <<>>
    /\ DOMAIN merged.shared_inputs = Keys
    /\ DOMAIN merged.public_inputs = {"p"}

HasDuplicateKey(cs) ==
    \E i, j \in DOMAIN cs : i # j /\ ~SharedKeysDisjoint(cs[i], cs[j])

AllPublicAgree(cs) == \A i, j \in DOMAIN cs : PublicAgree(cs[i], cs[j])

\* C9 as stated: when two of the containers have a shared key in common, the
\* merge fails with DuplicateKey wherever the two stand in the list, and no
\* merged container or output file is produced.
C9_DuplicateKeyAlways ==
    (Merging /\ HasDuplicateKey(shares)) =>
        /\ pc = "done" /\ result = "DuplicateKey"
        /\ merged = <<>>
        /\ ~Happened("create:out")

\* C9 amended: when two of the containers have a shared key in common, the
\* merge fails wherever the two stand in the list, the error is returned and
\* no merged container or output file is produced; the error is DuplicateKey
\* unless the fold meets two containers with conflicting public inputs first,
\* which ends it with Conflict.
C9_DuplicateKeyFails ==
    (Merging /\ HasDuplicateKey(shares)) =>
        /\ pc = "done" /\ result \in {"DuplicateKey", "Conflict"}
        /\ AllPublicAgree(shares) => result = "DuplicateKey"
        /\ merged = <<>>
        /\ ~Happened("create:out")

\* The duplicate sits in the first two of three containers, the start item
\* (the last) is disjoint from both.
C9_Witness ==
    /\ Merging /\ Len(shares) = 3
    /\ ~SharedKeysDisjoint(shares[1], shares[2])
    /\ SharedKeysDisjoint(shares[3], shares[1])
    /\ SharedKeysDisjoint(shares[3], shares[2])
    /\ result = "DuplicateKey"

\* C10 as stated: with fewer than 2 input paths merge-input-shares fails with
\* the count error, before any input file is checked, opened or deserialized
\* and before the output is created; with 2 or more the pop never fails.
C10_CountErrorFirst ==
    cmd = "merge-input-shares" =>
        /\ cfg.inputs < 2 =>
            /\ log = <<>> /\ shares = <<>> /\ merged = <<>>
            /\ pc = "done" => result = "Count"
        /\ result # "Panic"

\* C10 amended: with protocol REP3 and fewer than 2 input paths
\* merge-input-shares fails with the count error; with another protocol it
\* fails with the unsupported-protocol error, which is checked first; either
\* way before any input file is checked, opened or deserialized and before
\* the output is created.  With 2 or more inputs the pop never fails.
C10_CountErrorAfterProtocol ==
    cmd = "merge-input-shares" =>
        /\ cfg.inputs < 2 =>
            /\ log = <<>> /\ shares = <<>> /\ merged = <<>>
            /\ pc \in {"start", "count", "done"}
            /\ pc = "done" =>
                    result = IF cfg.protocol = "REP3" THEN "Count" ELSE "Config"
        /\ result # "Panic"
        /\ pc = "fold" => Len(shares) >= 2

C10_Witness ==
    /\ cmd = "merge-input-shares"
    /\ cfg.protocol = "REP3" /\ cfg.inputs = 1
    /\ pc = "done" /\ result = "Count"

\* The literal handed to parse_field.
Literal == input.json[1].val.s

IsDigits(s, radix) == s # <<>> /\ \A i \in 1 .. Len(s) : to_digit(s[i], radix) >= 0

Signed(s) == s # <<>> /\ s[1] = "-"

Unsigned(s) == IF Signed(s) THEN Tail(s) ELSE s

IsHex(s) ==
    /\ Len(Unsigned(s)) >= 3
    /\ SubSeq(Unsigned(s), 1, 2) = <<"0", "x">>
    /\ IsDigits(SubSeq(Unsigned(s), 3, Len(Unsigned(s))), 16)

IsDecimal(s) == IsDigits(Unsigned(s), 10)

WellFormed(s) == IsHex(s) \/ IsDecimal(s)

\* The number a digit string writes: the last digit plus radix times the rest.
RECURSIVE PlaceValue(_, _)
PlaceValue(digits, radix) ==
    IF digits = <<>> THEN 0
    ELSE to_digit(digits[Len(digits)], radix)
            + radix * PlaceValue(SubSeq(digits, 1, Len(digits) - 1), radix)

Magnitude(s) ==
    IF IsHex(s) THEN PlaceValue(SubSeq(Unsigned(s), 3, Len(Unsigned(s))), 16)
    ELSE PlaceValue(Unsigned(s), 10)

\* The magnitude reduced modulo p, negated when the sign is present.
ReducedThenNegated(s) ==
    IF Signed(s) THEN (P - (Magnitude(s) % P)) % P ELSE Magnitude(s) % P

ParsedLiteral ==
    /\ cmd = "parse-field" /\ pc = "done"
    /\ input.json[1].val.kind = "string"

\* C12: parse_field maps every well-formed literal (decimal digits or
\* 0x-prefixed hexadecimal digits, with an optional leading '-') to the
\* magnitude reduced modulo p and then negated when the sign is present, for
\* every magnitude, also those not below p, in both forms.
C12_ParseFieldReducesModP ==
    (ParsedLiteral /\ WellFormed(Literal)) =>
        parsed[1] = Ok(ReducedThenNegated(Literal))

\* The names of the entries split-input has processed so far.
ProcessedNames == {input.json[k].name : k \in 1 .. Len(parsed)}

SplittingInput == cmd = "split-input" /\ Len(shares) = 3

\* C11: after split-input has processed entries of the input map, every
\* processed name is in all three containers; a name the circuit lists as
\* public is in public_inputs only, with the parsed cleartext sequence of its
\* value in all three; every other name is in shared_inputs only; so in each
\* container the two key sets are disjoint and all three containers have the
\* same key sets.
C11_SplitInputKeys ==
    SplittingInput =>
        \A p \in 1 .. 3 :
            /\ DOMAIN shares[p].public_inputs = ProcessedNames \cap input.public
            /\ DOMAIN shares[p].shared_inputs = ProcessedNames \ input.public
            /\ (DOMAIN shares[p].public_inputs) \cap (DOMAIN shares[p].shared_inputs) = {}
            /\ DOMAIN shares[p].public_inputs = DOMAIN shares[1].public_inputs
            /\ DOMAIN shares[p].shared_inputs = DOMAIN shares[1].shared_inputs
            /\ \A k \in 1 .. Len(parsed) :
                    input.json[k].name \in input.public =>
                        /\ shares[p].public_inputs[input.json[k].name] = parsed[k]
                        /\ parsed[k] = parse_vals(input.json[k].val).val

\* A finished run over a public nested array and a secret scalar.
C11_Witness ==
    /\ SplittingInput
    /\ pc = "done" /\ result = "ok"
    /\ input.public = {"a"}
    /\ Len(input.json) = 2
    /\ shares[3].public_inputs["a"] = <<1, 2, 4, 0>>
    /\ DOMAIN shares[2].shared_inputs = {"b"}

\* generate-proof has returned success and was asked for the public-input file.
PublicInputWritten ==
    cmd = "generate-proof" /\ pc = "done" /\ result = "ok" /\ cfg.public_input

\* The decimal numeral of a natural number.
RECURSIVE Decimal(_)
Decimal(n) ==
    IF n < 10 THEN <<HexDigits[n + 1]>>
    ELSE Decimal(n \div 10) \o <<HexDigits[(n % 10) + 1]>>

\* The decimal strings of e1..ek of the sequence [e0, e1, ..., ek].
DecimalStrings(e) ==
    [i \in 1 .. (IF Len(e) = 0 THEN 0 ELSE Len(e) - 1) |-> Decimal(e[i + 1])]

\* C13: the public-input file generate-proof has written for a witness share
\* with public_inputs [e0, e1, ..., ek] is the ordered list of the decimal
\* strings of e1..ek: element 0 is omitted, the order is kept, the list has
\* length k (0 when public_inputs is empty or has one element), and a zero
\* element is written as "0".
C13_PublicInputFile ==
    PublicInputWritten =>
        /\ output.created
        /\ output.content = to_writer(DecimalStrings(shares[1].public_inputs))

RECURSIVE BadLiteralIn(_)
BadLiteralIn(val) ==
    IF val.kind = "array"
    THEN \E k \in 1 .. Len(val.items) : BadLiteralIn(val.items[k])
    ELSE val.kind # "string" \/ ~WellFormed(val.s)

HasBadLiteral == \E k \in 1 .. Len(input.json) : BadLiteralIn(input.json[k].val)

ValuesParsed == Cardinality({i \in 1 .. Len(log) : log[i] = "parse:value"})

\* C17: split-input parses every signal value of the input map (scalars, and
\* arrays flattened depth-first, left to right, at any depth) before the
\* first share file is created; if any literal is a non-string value or a
\* malformed string the command returns a parse error and no share file has
\* been created.
C17_SplitInputAllOrNothing ==
    cmd = "split-input" =>
        /\ Happened("create:share") =>
                /\ ValuesParsed = Len(input.json)
                /\ \A k \in 1 .. Len(input.json) :
                        parsed[k] = parse_vals(input.json[k].val).val
        /\ HasBadLiteral =>
                /\ ~Happened("create:share")
                /\ pc = "done" => result = "Parse"

\* The place of a party in the sequence of rounds: the rounds of the
\* preprocessing, then the round of the translation, then past them all.
Ord(p) ==
    CASE session.stage[p] = "connect" -> 0
      [] session.stage[p] = "preprocess" -> session.step[p]
      [] session.stage[p] = "translate" -> session.rounds + 1
      [] OTHER -> session.rounds + 2

NoFault == \A p \in Parties : session.res[p] \in {"running", "ok"}

\* q has sent its round-k message to r; r has received q's round-k message.
HasSent(q, r, k) == Ord(q) > k \/ (Ord(q) = k /\ r \in session.sent[q])

HasReceived(r, q, k) == Ord(r) > k \/ (Ord(r) = k /\ q \in session.got[r])

CountOf(ev) == Cardinality({i \in 1 .. Len(log) : log[i] = ev})

\* C15: if the connection, the preprocessing or the translation of
\* translate-witness fails, the command ends with that error and no partial
\* result: the output file is created only after connection, preprocessing
\* and translation have all succeeded, in that order, and none of them is
\* attempted a second time.
C15_TranslateAbortsWhole ==
    cmd = "translate-witness" =>
        /\ result \in {"Network", "Protocol"} =>
                /\ pc = "done"
                /\ ~Happened("create:out")
                /\ translated = <<>>
                /\ log[Len(log)] \in {"connect", "preprocess", "translate"}
                /\ result = "Network" <=> log[Len(log)] = "connect"
        /\ Happened("create:out") =>
                /\ result \in {"ok", "Io"}
                /\ Len(log) >= 4
                /\ SubSeq(log, Len(log) - 3, Len(log))
                        = <<"connect", "preprocess", "translate", "create:out">>
        /\ \A ev \in {"connect", "preprocess", "translate", "create:out"} :
                CountOf(ev) <= 1

\* The translation fails after the preprocessing has succeeded.
C15_Witness ==
    /\ cmd = "translate-witness"
    /\ pc = "done" /\ result = "Protocol"
    /\ Happened("preprocess")
    /\ log[Len(log)] = "translate"

InSession == pc = "session"

\* C16: in a session preprocessed with count values, after any sequence of
\* consuming operations no more than count values have been handed out, every
\* preprocessed value at most once (the values handed out and the values left
\* are the preprocessed ones, in order); an operation that finds the queue
\* empty fails with an error and hands out nothing.
C16_QueueNeverOverspent ==
    InSession =>
        /\ Len(session.handed) <= session.count
        /\ \A i, j \in 1 .. Len(session.handed) :
                session.handed[i].id = session.handed[j].id => i = j
        /\ session.handed \o session.queue = session.pre
        /\ session.calls <= session.count =>
                session.res = "running" /\ Len(session.handed) = session.calls
        /\ session.calls > session.count =>
                /\ session.res = "Protocol"
                /\ session.calls = session.count + 1
                /\ session.handed = session.pre

\* A session preprocessed with two equal values, both handed out, and a third
\* request refused.
C16_Witness ==
    /\ InSession
    /\ session.count = 2
    /\ session.pre[1].r = session.pre[2].r
    /\ session.res = "Protocol"
    /\ Len(session.handed) = 2

====
